---- MODULE Spec2Model ----
(***************************************************************************)
(* Model of scripts/init.py: ProjectInitializer verifies SSH access to     *)
(* GitHub once, then runs one process_repository coroutine per repository  *)
(* descriptor under asyncio.gather, each inside a shared                   *)
(* asyncio.Semaphore(5).  A step of the model is what one coroutine does   *)
(* between two suspension points (await of a subprocess).                  *)
(*                                                                         *)
(* Texts are sequences: the SSH probe's stderr is a sequence of            *)
(* characters, a URL or a git stdout a sequence of tokens.                 *)
(***************************************************************************)
EXTENDS Integers, Sequences, FiniteSets, TLC

\* ---------------------------------------------------------------- bounds
\* Longest repository list of the short-list initial states.
MaxRepos == 2
\* Number of descriptors beyond the semaphore's limit in the long-list
\* initial states.
MaxExtra == 1
\* Longest repository list of the fresh-workspace initial states.
MaxFresh == 3
\* Longest repository list of the runs that are followed by a second run.
MaxRerun == 2

\* ------------------------------------------------------ program constants
\* asyncio.Semaphore(5)
SemaphoreLimit == 5
\* sys.exit(1)
ExitFailure == 1
\* main() returning normally
ExitSuccess == 0

\* config["repo_org"]
ConfigOrg == "HappyPathway"
\* the "name" fields of config["repositories"], in order
ConfigNames ==
  << "terraform-gcp-compute", "terraform-gcp-networking", "terraform-gcp-storage",
     "terraform-gcp-monitoring", "terraform-gcp-security", "gcp-deployment" >>

Orgs == {ConfigOrg, "OtherOrg"}
AllNames == {ConfigNames[k] : k \in 1..Len(ConfigNames)}
SmallNames == {ConfigNames[1], ConfigNames[2]}
Branches == {"main", "dev"}

\* ------------------------------------------------------------------ text
Uppers ==
  <<"A","B","C","D","E","F","G","H","I","J","K","L","M","N","O","P","Q","R","S","T","U","V","W","X","Y","Z">>
Lowers ==
  <<"a","b","c","d","e","f","g","h","i","j","k","l","m","n","o","p","q","r","s","t","u","v","w","x","y","z">>

\* str.lower() on one character
LowerChar(c) ==
  IF \E k \in 1..Len(Uppers) : Uppers[k] = c
  THEN Lowers[CHOOSE k \in 1..Len(Uppers) : Uppers[k] = c]
  ELSE c

\* str.lower()
Lower(text) == [k \in 1..Len(text) |-> LowerChar(text[k])]

\* the operator `in` on two strings: needle occurs in text as a substring
Contains(text, needle) ==
  \E s \in 0..(Len(text) - Len(needle)) :
    \A k \in 1..Len(needle) : text[s + k] = needle[k]

Whitespace == {" ", "\n", "\t"}

\* str.strip(): drop leading and trailing whitespace
Strip(text) ==
  LET keep == {k \in 1..Len(text) : text[k] \notin Whitespace}
  IN  IF keep = {} THEN <<>>
      ELSE LET lo == CHOOSE k \in keep : \A m \in keep : k <= m
               hi == CHOOSE k \in keep : \A m \in keep : m <= k
           IN  SubSeq(text, lo, hi)

\* "successfully authenticated"
Marker ==
  <<"s","u","c","c","e","s","s","f","u","l","l","y"," ","a","u","t","h","e","n","t","i","c","a","t","e","d">>

\* what `ssh -T git@github.com` may write to its error stream
StderrTexts ==
  { <<"H","i"," ","u","!"," ","Y","o","u","'","v","e"," ","s","u","c","c","e","s","s","f","u","l","l","y"," ","a","u","t","h","e","n","t","i","c","a","t","e","d",","," ","b","u","t"," ","G","i","t","H","u","b"," ","d","o","e","s"," ","n","o","t"," ","p","r","o","v","i","d","e"," ","s","h","e","l","l"," ","a","c","c","e","s","s",".">>,
    <<"H","I"," ","U","!"," ","Y","O","U","'","V","E"," ","S","U","C","C","E","S","S","F","U","L","L","Y"," ","A","U","T","H","E","N","T","I","C","A","T","E","D",".">>,
    <<"g","i","t","@","g","i","t","h","u","b",".","c","o","m",":"," ","P","e","r","m","i","s","s","i","o","n"," ","d","e","n","i","e","d"," ","(","p","u","b","l","i","c","k","e","y",")",".">>,
    <<"s","u","c","c","e","s","s","f","u","l","l","y"," "," ","a","u","t","h","e","n","t","i","c","a","t","e","d">>,
    <<>> }

\* ------------------------------------------------------------- the state
VARIABLES
  repo_org,        \* self.repo_org
  repositories,    \* self.repositories: the sequence of descriptor names
  fs,              \* the directories under base_dir, by repository name
  fs0,             \* history: the directories as they were before the run
  history,         \* history: the calls and results of the runs that have ended
  runPc,           \* where run() is
  exitCode,        \* {} while the process runs, then {its exit code}
  sshCalls,        \* how many times the SSH probe was launched
  sshProbe,        \* {what the running probe will hand back}, {} when none runs
  sshResult,       \* what verify_git_ssh() returned: "none", "true", "false"
  semaphore,       \* self.semaphore._value: the free permits
  pc,              \* where each process_repository coroutine is
  calls,           \* per task, the subprocess calls it has launched
  results,         \* per task, how each finished call ended
  current_branch,  \* per task, update_repository's current_branch
  log,             \* per task, the lines it has printed
  console          \* the lines run() has printed

vars ==
  << repo_org, repositories, fs, fs0, history, runPc, exitCode, sshCalls, sshProbe, sshResult, semaphore,
     pc, calls, results, current_branch, log, console >>

Tasks == 1..Len(repositories)

\* f"git@github.com:{self.repo_org}/{repo_name}.git" of process_repository
ExpectedRemote(org, name) == <<"git@github.com:", org, "/", name, ".git">>

\* Mutant of CloneUrl: clone_repository builds the HTTPS URL.
CloneUrl_Https(org, name) == <<"https://github.com/", org, "/", name, ".git">>

\* f"git@github.com:{self.repo_org}/{repo_name}.git" of clone_repository
CloneUrl(org, name) == <<"git@github.com:", org, "/", name, ".git">>

\* a URL that is not the SSH URL of any organization
HttpsUrl(org, name) == <<"https://github.com/", org, "/", name, ".git">>

\* a path that does not exist
Absent == [exists |-> FALSE, remote |-> <<>>, branch |-> "", objects |-> "none", tree |-> "none"]

\* an existing directory: remote is its origin URL (<<>> when it has none or
\* is not a working tree), branch its checked-out branch
Dir(remote, branch, objects, tree) ==
  [exists |-> TRUE, remote |-> remote, branch |-> branch, objects |-> objects, tree |-> tree]

\* the directories a name's path can be before the run: none, a clone of the
\* configured organization's SSH URL on either branch, a clone of another
\* URL, a directory that is no working tree
InitialDirs(name) ==
  {Absent, Dir(HttpsUrl(ConfigOrg, name), "main", "old", "old"), Dir(<<>>, "", "none", "none")}
  \cup {Dir(ExpectedRemote(ConfigOrg, name), b, "old", "old") : b \in Branches}

\* Mutant of PathExists: the test of the path is inverted.
PathExists_Inverted(f, name) == ~f[name].exists

\* repo_path.exists()
PathExists(f, name) == f[name].exists

\* ------------------------------------------------- the external programs
\* How a subprocess call ends: "ok" (exit status 0), "nonzero" (it ran and
\* failed), "raise" (create_subprocess_exec or communicate raised).
Outcomes == {"ok", "nonzero", "raise"}

\* `ssh -T git@github.com`: what the probe hands back to verify_git_ssh
ProbeResults ==
  {[raised |-> TRUE, returncode |-> 255, stderr |-> <<>>]} \cup
  {[raised |-> FALSE, returncode |-> r, stderr |-> t] : r \in {0, 1, 255}, t \in StderrTexts}

\* `git remote get-url origin` in dir: the ways it can end, with its stdout
RemoteRuns(dir) ==
  {[rc |-> "raise", stdout |-> <<>>], [rc |-> "nonzero", stdout |-> <<>>]} \cup
  (IF dir.exists /\ dir.remote # <<>>
   THEN {[rc |-> "ok", stdout |-> dir.remote \o <<"\n">>]}
   ELSE {})

\* `git fetch` in dir: the ways it can end, with the directory it leaves
FetchRuns(dir) ==
  {[rc |-> "raise", dir |-> dir], [rc |-> "nonzero", dir |-> dir]} \cup
  (IF dir.exists /\ dir.remote # <<>>
   THEN {[rc |-> "ok", dir |-> [dir EXCEPT !.objects = "new"]]}
   ELSE {})

\* `git rev-parse --abbrev-ref HEAD` in dir: the ways it can end, with its stdout
BranchRuns(dir) ==
  {[rc |-> "raise", stdout |-> <<>>], [rc |-> "nonzero", stdout |-> <<>>]} \cup
  (IF dir.exists /\ dir.branch # ""
   THEN {[rc |-> "ok", stdout |-> <<dir.branch, "\n">>]}
   ELSE {})

\* `git pull origin <branch>` in dir: the ways it can end, with the directory
\* it leaves
PullRuns(dir, branch) ==
  {[rc |-> "raise", dir |-> dir], [rc |-> "nonzero", dir |-> dir]} \cup
  (IF dir.exists /\ dir.remote # <<>> /\ branch = <<dir.branch>>
   THEN {[rc |-> "ok", dir |-> [dir EXCEPT !.objects = "new", !.tree = "new"]]}
   ELSE {})

\* `git clone <url> <path>` onto dir: the ways it can end, with the directory
\* it leaves.  A failed clone may leave a half-made directory behind; a clone
\* onto an existing directory fails and leaves it alone.
CloneRuns(dir, url) ==
  {[rc |-> "raise", dir |-> dir], [rc |-> "nonzero", dir |-> dir]} \cup
  (IF dir.exists
   THEN {}
   ELSE {[rc |-> "ok", dir |-> Dir(url, "main", "new", "new")],
         [rc |-> "nonzero", dir |-> Dir(url, "", "none", "none")]})

\* --------------------------------------------------- the pure functions
\* Mutant of verify_git_ssh: stderr is searched without lower().
verify_git_ssh_NoLower(probe) ==
  IF probe.raised THEN FALSE ELSE Contains(probe.stderr, Marker)

\* verify_git_ssh: its return value for what the probe handed back
verify_git_ssh(probe) ==
  IF probe.raised THEN FALSE ELSE Contains(Lower(probe.stderr), Marker)

\* Mutant of check_remote: any URL the query prints is accepted.
check_remote_AnyRemote(run, expected_remote) ==
  IF run.rc = "raise" THEN FALSE ELSE Strip(run.stdout) # <<>>

\* Mutant of check_remote: the query's output is compared without strip().
check_remote_NoStrip(run, expected_remote) ==
  IF run.rc = "raise" THEN FALSE ELSE run.stdout = expected_remote

\* Mutant of check_remote: a query that cannot be launched counts as a match.
check_remote_ExceptTrue(run, expected_remote) ==
  IF run.rc = "raise" THEN TRUE ELSE Strip(run.stdout) = expected_remote

\* check_remote: its return value for how `git remote get-url origin` ended
check_remote(run, expected_remote) ==
  IF run.rc = "raise" THEN FALSE ELSE Strip(run.stdout) = expected_remote

\* update_repository: its return value for how the calls it made ended
\* (the calls after a raising one are never made)
update_repository(rcs) == \A k \in 1..Len(rcs) : rcs[k] # "raise"

\* clone_repository: its return value for how `git clone` ended
clone_repository(rc) == rc # "raise"

\* --------------------------------------------------------------- logging
\* a launched subprocess: the program and subcommand, its further arguments
\* (each a text) and its working directory (<<>>: the process's own)
Call(cmd, args, cwd) == [cmd |-> cmd, args |-> args, cwd |-> cwd]

\* the outcome a printed line reports, "None" for the other lines
OutcomeOfLine(line) ==
  CASE line = "cloned successfully" -> "Cloned"
    [] line = "updated successfully" -> "Updated"
    [] line = "Remote mismatch" -> "RemoteMismatch"
    [] line = "Failed to clone" -> "CloneFailed"
    [] line = "Failed to update" -> "UpdateFailed"
    [] OTHER -> "None"

\* the outcome lines task i has printed, as outcomes
Outcomes_of(i) ==
  LET lines == SelectSeq(log[i], LAMBDA l : OutcomeOfLine(l) # "None")
  IN  [k \in 1..Len(lines) |-> OutcomeOfLine(lines[k])]

\* the outcome of task i: its first outcome line, "None" before it
Outcome(i) == IF Outcomes_of(i) = <<>> THEN "None" ELSE Outcomes_of(i)[1]

FailureOutcomes == {"RemoteMismatch", "CloneFailed", "UpdateFailed"}

\* the outcomes process_repository reports
SyncOutcomes == {"Cloned", "Updated"} \cup FailureOutcomes

\* ------------------------------------------------------------ the state
\* the positions of a task between acquiring and releasing the semaphore
InChain == {"check_remote", "fetch", "branch", "pull", "clone"}

\* str(repo_path) of a name: self.base_dir / repo_name
RepoPath(name) == <<"base_dir/", name>>

InitRun ==
  /\ runPc = "start"
  /\ exitCode = {}
  /\ sshCalls = 0
  /\ sshProbe = {}
  /\ sshResult = "none"
  /\ fs0 = fs
  /\ history = <<>>
  /\ semaphore = SemaphoreLimit
  /\ pc = [i \in Tasks |-> "unstarted"]
  /\ calls = [i \in Tasks |-> <<>>]
  /\ results = [i \in Tasks |-> <<>>]
  /\ current_branch = [i \in Tasks |-> <<>>]
  /\ log = [i \in Tasks |-> <<>>]
  /\ console = <<>>

\* Short lists, names possibly repeated, over every state of the two
\* directories they name.
InitShort ==
  /\ repo_org \in Orgs
  /\ repositories \in UNION {[1..n -> SmallNames] : n \in 0..MaxRepos}
  /\ \E d1 \in InitialDirs(ConfigNames[1]), d2 \in InitialDirs(ConfigNames[2]) :
       fs = [n \in AllNames |->
               IF n = ConfigNames[1] THEN d1
               ELSE IF n = ConfigNames[2] THEN d2 ELSE Absent]
  /\ InitRun

\* The configured organization with a list longer than the semaphore's
\* limit: the configured names in order, repeated from the first when the
\* list is longer than the configuration's.  The first directory is a clone
\* of another URL, the second a clone of the expected remote, the others do
\* not exist.
InitLong ==
  /\ repo_org = ConfigOrg
  /\ repositories =
       [i \in 1..(SemaphoreLimit + MaxExtra) |->
          ConfigNames[((i - 1) % Len(ConfigNames)) + 1]]
  /\ fs = [n \in AllNames |->
             IF n = ConfigNames[1]
             THEN Dir(HttpsUrl(ConfigOrg, n), "main", "old", "old")
             ELSE IF n = ConfigNames[2]
             THEN Dir(ExpectedRemote(ConfigOrg, n), "main", "old", "old")
             ELSE Absent]
  /\ InitRun

\* A fresh workspace: the first configured names, none of which has a
\* directory yet.
InitFresh ==
  /\ repo_org = ConfigOrg
  /\ repositories \in {[i \in 1..n |-> ConfigNames[i]] : n \in 0..MaxFresh}
  /\ fs = [n \in AllNames |-> Absent]
  /\ InitRun

Init == InitShort \/ InitLong \/ InitFresh

\* A list longer than the limit in which the tasks that have to queue for a
\* permit name the repository whose directory has another origin: the first
\* names take the update and the clone paths, the rest the mismatch path.
InitQueue ==
  /\ repo_org = ConfigOrg
  /\ repositories = [i \in 1..(SemaphoreLimit + MaxExtra) |->
                       IF i <= 3 THEN ConfigNames[i + 1] ELSE ConfigNames[1]]
  /\ fs = [n \in AllNames |-> IF n = ConfigNames[1] THEN Dir(HttpsUrl(ConfigOrg, n), "main", "old", "old")
           ELSE IF n = ConfigNames[2] THEN Dir(ExpectedRemote(ConfigOrg, n), "main", "old", "old") ELSE Absent]
  /\ InitRun

\* --------------------------------------------------------------- run()
runVars == <<runPc, exitCode, sshCalls, sshProbe, sshResult, console>>
taskVars == <<semaphore, pc, calls, results, current_branch, log>>
inputVars == <<repo_org, repositories, fs0, history>>

\* run() up to the await of verify_git_ssh(), which launches the probe; what
\* the probe will hand back is the environment's choice
RunStart ==
  /\ runPc = "start"
  /\ \E probe \in ProbeResults : sshProbe' = {probe}
  /\ console' = console \o <<"Initializing project", "Verifying Git SSH access to GitHub...">>
  /\ sshCalls' = sshCalls + 1
  /\ runPc' = "verify"
  /\ UNCHANGED <<exitCode, sshResult, fs, taskVars, inputVars>>

\* Mutant of RunAfterVerify: the sys.exit(1) of the failure branch is lost, so
\* run() reports the failure and goes on to the repositories.
RunAfterVerify_NoExit(probe) ==
  LET ok == verify_git_ssh(probe)
      err == IF probe.raised THEN <<"Error verifying Git SSH access">> ELSE <<>>
  IN  /\ runPc = "verify"
      /\ sshResult' = IF ok THEN "true" ELSE "false"
      /\ console' = console \o err \o
           (IF ok THEN <<>>
            ELSE <<"Failed to verify Git SSH access to GitHub",
                   "Please check your SSH configuration">>)
           \o <<"Git SSH access verified">>
      /\ runPc' = "gather"
      /\ exitCode' = exitCode
      /\ pc' = [i \in Tasks |-> "waiting"]
      /\ sshProbe' = {}
      /\ UNCHANGED <<sshCalls, fs, semaphore, calls, results, current_branch, log, inputVars>>

\* Mutant of RunAfterVerify: a failed probe is launched a second time.
RunAfterVerify_Reprobe(probe) ==
  LET ok == verify_git_ssh(probe)
      err == IF probe.raised THEN <<"Error verifying Git SSH access">> ELSE <<>>
  IN  /\ runPc = "verify"
      /\ IF ~ok /\ sshCalls < 2
         THEN /\ console' = console \o err
              /\ sshCalls' = sshCalls + 1
              /\ \E again \in ProbeResults : sshProbe' = {again}
              /\ UNCHANGED <<runPc, exitCode, pc, sshResult>>
         ELSE /\ sshResult' = IF ok THEN "true" ELSE "false"
              /\ console' = console \o err \o
                   (IF ok THEN <<"Git SSH access verified">>
                    ELSE <<"Failed to verify Git SSH access to GitHub",
                           "Please check your SSH configuration">>)
              /\ runPc' = IF ok THEN "gather" ELSE "exited"
              /\ exitCode' = IF ok THEN exitCode ELSE {ExitFailure}
              /\ pc' = IF ok THEN [i \in Tasks |-> "waiting"] ELSE pc
              /\ sshProbe' = {}
              /\ sshCalls' = sshCalls
      /\ UNCHANGED <<fs, semaphore, calls, results, current_branch, log, inputVars>>

\* run() from the return of verify_git_ssh() to the await of gather: exit
\* on failure, else one process_repository coroutine per descriptor
RunAfterVerify(probe) ==
  LET ok == verify_git_ssh(probe)
      err == IF probe.raised THEN <<"Error verifying Git SSH access">> ELSE <<>>
  IN  /\ runPc = "verify"
      /\ sshResult' = IF ok THEN "true" ELSE "false"
      /\ IF ~ok
         THEN /\ console' = console \o err \o
                   <<"Failed to verify Git SSH access to GitHub",
                     "Please check your SSH configuration">>
              /\ runPc' = "exited"
              /\ exitCode' = {ExitFailure}
              /\ pc' = pc
         ELSE /\ console' = console \o err \o <<"Git SSH access verified">>
              /\ runPc' = "gather"
              /\ exitCode' = exitCode
              /\ pc' = [i \in Tasks |-> "waiting"]
      /\ sshProbe' = {}
      /\ UNCHANGED <<sshCalls, fs, semaphore, calls, results, current_branch, log, inputVars>>

\* the probe has ended: verify_git_ssh() returns to run()
VerifyReturns == \E probe \in sshProbe : RunAfterVerify(probe)

\* Mutant of Gather: run() goes on as soon as one task is done, as with
\* asyncio.wait(..., return_when=FIRST_COMPLETED).
Gather_FirstCompleted ==
  /\ runPc = "gather"
  /\ \E i \in Tasks : pc[i] = "done"
  /\ runPc' = "done"
  /\ exitCode' = {ExitSuccess}
  /\ console' = console \o <<"Project initialization complete!">>
  /\ UNCHANGED <<pc, semaphore>>
  /\ UNCHANGED <<sshCalls, sshProbe, sshResult, fs, calls, results, current_branch, log, inputVars>>

\* Mutant of Gather: run() exits with 1 when a repository was reported as
\* failed.
Gather_ExitOnFailure ==
  /\ runPc = "gather"
  /\ \A i \in Tasks : pc[i] = "done"
  /\ runPc' = "done"
  /\ exitCode' = IF \E i \in Tasks : Outcome(i) \in FailureOutcomes
                 THEN {ExitFailure} ELSE {ExitSuccess}
  /\ console' = console \o <<"Project initialization complete!">>
  /\ UNCHANGED <<pc, semaphore>>
  /\ UNCHANGED <<sshCalls, sshProbe, sshResult, fs, calls, results, current_branch, log, inputVars>>

\* await asyncio.gather(*tasks) returning to run(), and the end of the
\* process.  gather raises the first exception of a task as soon as it is
\* raised, the process then ends with a traceback and asyncio.run cancels
\* the tasks still running; else gather returns when every task is done.
Gather ==
  /\ runPc = "gather"
  /\ IF \E i \in Tasks : pc[i] = "raised"
     THEN /\ runPc' = "crashed"
          /\ exitCode' = {ExitFailure}
          /\ pc' = [i \in Tasks |-> IF pc[i] \in {"done", "raised"} THEN pc[i] ELSE "cancelled"]
          /\ semaphore' = semaphore + Cardinality({i \in Tasks : pc[i] \in InChain})
          /\ console' = console
     ELSE /\ \A i \in Tasks : pc[i] = "done"
          /\ runPc' = "done"
          /\ exitCode' = {ExitSuccess}
          /\ console' = console \o <<"Project initialization complete!">>
          /\ UNCHANGED <<pc, semaphore>>
  /\ UNCHANGED <<sshCalls, sshProbe, sshResult, fs, calls, results, current_branch, log, inputVars>>

\* ------------------------------------------------- process_repository()
\* Mutant of UpdateLines: the failure line is printed without an else.
UpdateLines_NoElse(ok) ==
  IF ok THEN <<"updated successfully", "Failed to update">> ELSE <<"Failed to update">>

\* the lines process_repository prints for update_repository's return value
UpdateLines(ok) == IF ok THEN <<"updated successfully">> ELSE <<"Failed to update">>

\* the lines process_repository prints for clone_repository's return value
CloneLines(ok) == IF ok THEN <<"cloned successfully">> ELSE <<"Failed to clone">>

\* the lines process_repository prints when check_remote returns False
MismatchLines == <<"Remote mismatch", "Expected", "Please check the repository manually">>

\* how the calls of task i's update_repository have ended, once its last
\* call ends with rc (the first result of the task is check_remote's)
UpdateRcs(i, rc) == Append(Tail(results[i]), rc)

\* task i goes on after a call that ended with rc: it prints lines and
\* launches the next call
Continue(i, rc, lines, call, next) ==
  /\ results' = [results EXCEPT ![i] = Append(@, rc)]
  /\ log' = [log EXCEPT ![i] = @ \o lines]
  /\ calls' = [calls EXCEPT ![i] = Append(@, call)]
  /\ pc' = [pc EXCEPT ![i] = next]
  /\ semaphore' = semaphore

\* Mutant of Finish: leaving `async with` does not give the permit back.
Finish_NoRelease(i, rc, lines) ==
  /\ results' = [results EXCEPT ![i] = Append(@, rc)]
  /\ log' = [log EXCEPT ![i] = @ \o lines]
  /\ calls' = calls
  /\ pc' = [pc EXCEPT ![i] = "done"]
  /\ semaphore' = semaphore

\* task i ends after a call that ended with rc: it prints lines and leaves
\* `async with self.semaphore`, which releases the permit
Finish(i, rc, lines) ==
  /\ results' = [results EXCEPT ![i] = Append(@, rc)]
  /\ log' = [log EXCEPT ![i] = @ \o lines]
  /\ calls' = calls
  /\ pc' = [pc EXCEPT ![i] = "done"]
  /\ semaphore' = semaphore + 1

\* process_repository from `async with` to its first await: the path is
\* checked and the remote check or the clone is launched
Enter(i) ==
  LET name == repositories[i]
  IN  /\ IF PathExists(fs, name)
         THEN /\ log' = [log EXCEPT ![i] = @ \o <<"Processing repository", "exists, verifying...">>]
              /\ calls' = [calls EXCEPT ![i] =
                             Append(@, Call("git remote get-url origin", <<>>, RepoPath(name)))]
              /\ pc' = [pc EXCEPT ![i] = "check_remote"]
         ELSE /\ log' = [log EXCEPT ![i] = @ \o <<"Processing repository", "Cloning...">>]
              /\ calls' = [calls EXCEPT ![i] =
                             Append(@, Call("git clone",
                                            <<CloneUrl(repo_org, name), RepoPath(name)>>, <<>>))]
              /\ pc' = [pc EXCEPT ![i] = "clone"]
      /\ UNCHANGED <<results, current_branch, fs, runVars, inputVars>>

\* Mutant of Acquire: the task does not wait for a free permit.
Acquire_NoLimit(i) ==
  /\ runPc = "gather"
  /\ pc[i] = "waiting"
  /\ \A j \in Tasks : j < i => pc[j] # "waiting"
  /\ semaphore' = semaphore - 1
  /\ Enter(i)

\* Mutant of Acquire: the task prints its first line before `async with`,
\* so a task that finds no free permit prints it while it waits.
Acquire_PrintsWaiting(i) ==
  /\ runPc = "gather"
  /\ pc[i] = "waiting"
  /\ \A j \in Tasks : j < i => pc[j] # "waiting"
  /\ IF semaphore > 0
     THEN semaphore' = semaphore - 1 /\ Enter(i)
     ELSE /\ log[i] = <<>>
          /\ log' = [log EXCEPT ![i] = <<"Processing repository">>]
          /\ UNCHANGED <<semaphore, pc, calls, results, current_branch, fs, runVars, inputVars>>

\* Semaphore.acquire(): a task takes a permit when one is free and no task
\* launched before it is still waiting (the waiters are served first in,
\* first out, and gather starts the tasks in list order)
Acquire(i) ==
  /\ runPc = "gather"
  /\ pc[i] = "waiting"
  /\ semaphore > 0
  /\ \A j \in Tasks : j < i => pc[j] # "waiting"
  /\ semaphore' = semaphore - 1
  /\ Enter(i)

\* Mutant of RemoteReturns: the mismatch path leaves without giving the
\* permit back.
RemoteReturns_KeepsPermit(i) ==
  LET name == repositories[i]
  IN  /\ runPc = "gather"
      /\ pc[i] = "check_remote"
      /\ \E run \in RemoteRuns(fs[name]) :
           IF check_remote(run, ExpectedRemote(repo_org, name))
           THEN Continue(i, run.rc, <<"Updating...">>, Call("git fetch", <<>>, RepoPath(name)), "fetch")
           ELSE Finish_NoRelease(i, run.rc, MismatchLines)
      /\ UNCHANGED <<current_branch, fs, runVars, inputVars>>

\* `git remote get-url origin` has ended: check_remote returns, and the task
\* launches the fetch of update_repository or reports the mismatch
RemoteReturns(i) ==
  LET name == repositories[i]
  IN  /\ runPc = "gather"
      /\ pc[i] = "check_remote"
      /\ \E run \in RemoteRuns(fs[name]) :
           IF check_remote(run, ExpectedRemote(repo_org, name))
           THEN Continue(i, run.rc, <<"Updating...">>, Call("git fetch", <<>>, RepoPath(name)), "fetch")
           ELSE Finish(i, run.rc, MismatchLines)
      /\ UNCHANGED <<current_branch, fs, runVars, inputVars>>

\* `git fetch` has ended: update_repository launches the branch lookup, or
\* returns False from its except clause
FetchReturns(i) ==
  LET name == repositories[i]
  IN  /\ runPc = "gather"
      /\ pc[i] = "fetch"
      /\ \E run \in FetchRuns(fs[name]) :
           /\ fs' = [fs EXCEPT ![name] = run.dir]
           /\ IF run.rc = "raise"
              THEN Finish(i, run.rc, <<"Error updating repository">> \o
                                     UpdateLines(update_repository(UpdateRcs(i, run.rc))))
              ELSE Continue(i, run.rc, <<>>,
                            Call("git rev-parse --abbrev-ref HEAD", <<>>, RepoPath(name)), "branch")
      /\ UNCHANGED <<current_branch, runVars, inputVars>>

\* Mutant of BranchReturns: the pull always names the branch main.
BranchReturns_HardcodedMain(i) ==
  LET name == repositories[i]
  IN  /\ runPc = "gather"
      /\ pc[i] = "branch"
      /\ \E run \in BranchRuns(fs[name]) :
           IF run.rc = "raise"
           THEN /\ Finish(i, run.rc, <<"Error updating repository">> \o
                                     UpdateLines(update_repository(UpdateRcs(i, run.rc))))
                /\ current_branch' = current_branch
           ELSE /\ current_branch' = [current_branch EXCEPT ![i] = Strip(run.stdout)]
                /\ Continue(i, run.rc, <<>>,
                            Call("git pull", <<<<"origin">>, <<"main">>>>, RepoPath(name)),
                            "pull")
      /\ UNCHANGED <<fs, runVars, inputVars>>

\* `git rev-parse --abbrev-ref HEAD` has ended: update_repository reads the
\* branch name and launches the pull, or returns False from its except clause
BranchReturns(i) ==
  LET name == repositories[i]
  IN  /\ runPc = "gather"
      /\ pc[i] = "branch"
      /\ \E run \in BranchRuns(fs[name]) :
           IF run.rc = "raise"
           THEN /\ Finish(i, run.rc, <<"Error updating repository">> \o
                                     UpdateLines(update_repository(UpdateRcs(i, run.rc))))
                /\ current_branch' = current_branch
           ELSE /\ current_branch' = [current_branch EXCEPT ![i] = Strip(run.stdout)]
                /\ Continue(i, run.rc, <<>>,
                            Call("git pull", <<<<"origin">>, Strip(run.stdout)>>, RepoPath(name)),
                            "pull")
      /\ UNCHANGED <<fs, runVars, inputVars>>

\* `git pull origin <branch>` has ended: update_repository returns and the
\* task reports the update
PullReturns(i) ==
  LET name == repositories[i]
  IN  /\ runPc = "gather"
      /\ pc[i] = "pull"
      /\ \E run \in PullRuns(fs[name], current_branch[i]) :
           /\ fs' = [fs EXCEPT ![name] = run.dir]
           /\ Finish(i, run.rc,
                     (IF run.rc = "raise" THEN <<"Error updating repository">> ELSE <<>>) \o
                     UpdateLines(update_repository(UpdateRcs(i, run.rc))))
      /\ UNCHANGED <<current_branch, runVars, inputVars>>

\* Mutant of CloneReturns: clone_repository has no except clause, so an
\* exception of the launch leaves process_repository (and its `async with`).
CloneReturns_NoExcept(i) ==
  LET name == repositories[i]
      url == calls[i][Len(calls[i])].args[1]
  IN  /\ runPc = "gather"
      /\ pc[i] = "clone"
      /\ \E run \in CloneRuns(fs[name], url) :
           /\ fs' = [fs EXCEPT ![name] = run.dir]
           /\ IF run.rc = "raise"
              THEN /\ results' = [results EXCEPT ![i] = Append(@, run.rc)]
                   /\ pc' = [pc EXCEPT ![i] = "raised"]
                   /\ semaphore' = semaphore + 1
                   /\ UNCHANGED <<log, calls>>
              ELSE Finish(i, run.rc, CloneLines(TRUE))
      /\ UNCHANGED <<current_branch, runVars, inputVars>>

\* Mutant of CloneReturns: every clone goes to the path of the first
\* repository of the list.
CloneReturns_FirstPath(i) ==
  LET name == repositories[1]
      url == calls[i][Len(calls[i])].args[1]
  IN  /\ runPc = "gather"
      /\ pc[i] = "clone"
      /\ \E run \in CloneRuns(fs[name], url) :
           /\ fs' = [fs EXCEPT ![name] = run.dir]
           /\ Finish(i, run.rc,
                     (IF run.rc = "raise" THEN <<"Error cloning repository">> ELSE <<>>) \o
                     CloneLines(clone_repository(run.rc)))
      /\ UNCHANGED <<current_branch, runVars, inputVars>>

\* Mutant of CloneReturns: a clone that did not end well is tried once more.
CloneReturns_Retry(i) ==
  LET name == repositories[i]
      url == calls[i][Len(calls[i])].args[1]
  IN  /\ runPc = "gather"
      /\ pc[i] = "clone"
      /\ \E run \in CloneRuns(fs[name], url) :
           /\ fs' = [fs EXCEPT ![name] = run.dir]
           /\ IF run.rc # "ok" /\ Len(calls[i]) < 2
              THEN Continue(i, run.rc, <<>>, calls[i][Len(calls[i])], "clone")
              ELSE Finish(i, run.rc,
                          (IF run.rc = "raise" THEN <<"Error cloning repository">> ELSE <<>>) \o
                          CloneLines(clone_repository(run.rc)))
      /\ UNCHANGED <<current_branch, runVars, inputVars>>

\* `git clone` has ended: clone_repository returns and the task reports the
\* clone
CloneReturns(i) ==
  LET name == repositories[i]
      url == calls[i][Len(calls[i])].args[1]
  IN  /\ runPc = "gather"
      /\ pc[i] = "clone"
      /\ \E run \in CloneRuns(fs[name], url) :
           /\ fs' = [fs EXCEPT ![name] = run.dir]
           /\ Finish(i, run.rc,
                     (IF run.rc = "raise" THEN <<"Error cloning repository">> ELSE <<>>) \o
                     CloneLines(clone_repository(run.rc)))
      /\ UNCHANGED <<current_branch, runVars, inputVars>>

Next ==
  \/ RunStart
  \/ VerifyReturns
  \/ Gather
  \/ \E i \in Tasks : Acquire(i)
  \/ \E i \in Tasks : RemoteReturns(i)
  \/ \E i \in Tasks : FetchReturns(i)
  \/ \E i \in Tasks : BranchReturns(i)
  \/ \E i \in Tasks : PullReturns(i)
  \/ \E i \in Tasks : CloneReturns(i)

Spec == Init /\ [][Next]_vars

\* The script is started a second time after its process has ended: main()
\* builds a new ProjectInitializer over the same configuration, and base_dir
\* holds what the first run left.
Rerun ==
  /\ exitCode # {}
  /\ history = <<>>
  /\ history' = <<[runPc |-> runPc, calls |-> calls, results |-> results]>>
  /\ fs0' = fs
  /\ runPc' = "start"
  /\ exitCode' = {}
  /\ sshCalls' = 0
  /\ sshProbe' = {}
  /\ sshResult' = "none"
  /\ semaphore' = SemaphoreLimit
  /\ pc' = [i \in Tasks |-> "unstarted"]
  /\ calls' = [i \in Tasks |-> <<>>]
  /\ results' = [i \in Tasks |-> <<>>]
  /\ current_branch' = [i \in Tasks |-> <<>>]
  /\ log' = [i \in Tasks |-> <<>>]
  /\ console' = <<>>
  /\ UNCHANGED <<repo_org, repositories, fs>>

\* The first of two runs: distinct configured names over a workspace without
\* repository directories.
InitRerun ==
  /\ repo_org = ConfigOrg
  /\ repositories \in {[i \in 1..n |-> ConfigNames[i]] : n \in 0..MaxRerun}
  /\ fs = [n \in AllNames |-> Absent]
  /\ InitRun

\* Two runs of the script, one after the other, over a workspace that is
\* empty before the first.
RerunSpec == InitRerun /\ [][Next \/ Rerun]_vars

\* The run when every subprocess call eventually returns and the event loop
\* resumes every coroutine that is ready: a step that stays possible is
\* eventually taken.
FairSpec == (InitQueue \/ InitFresh) /\ [][Next]_vars /\ WF_vars(Next)

\* ------------------------------------------------------------ the claims
\* the programs task i has launched, in order
Cmds(i) == [k \in 1..Len(calls[i]) |-> calls[i][k].cmd]

\* the tasks inside their subprocess chain
Running == {i \in Tasks : pc[i] \in InChain}

\* C1: if verify_git_ssh() returns false, no process_repository task is
\* started, no repository subprocess call is ever issued, no directory is
\* touched by a task, and the process has ended with exit code 1.
C1_SshFailureIsFatal ==
  sshResult = "false" =>
    /\ \A i \in Tasks : pc[i] = "unstarted" /\ calls[i] = <<>> /\ log[i] = <<>>
    /\ semaphore = SemaphoreLimit
    /\ runPc = "exited"
    /\ exitCode = {ExitFailure}

\* C1 happens: the probe failed for a list with more descriptors than permits.
C1_Witness ==
  /\ sshResult = "false"
  /\ runPc = "exited"
  /\ Len(repositories) > SemaphoreLimit

\* C2: in every reachable state at most 5 (the semaphore's limit) tasks are
\* between acquiring and releasing the semaphore, also for more than 5
\* descriptors.
C2_AtMostLimitInChain == Cardinality(Running) <= SemaphoreLimit

\* C2 happens: of more descriptors than permits, as many tasks as permits are
\* in their chain and another one waits.
C2_Witness ==
  /\ Len(repositories) > SemaphoreLimit
  /\ Cardinality(Running) = SemaphoreLimit
  /\ \E i \in Tasks : pc[i] = "waiting"

\* the programs of the update path, in order
UpdateCmds ==
  <<"git remote get-url origin", "git fetch", "git rev-parse --abbrev-ref HEAD", "git pull">>

\* C3, in every state: a task that reports a remote mismatch has ended and
\* has launched the remote query and nothing else.
C3_MismatchInv ==
  \A i \in Tasks :
    Outcome(i) = "RemoteMismatch" =>
      pc[i] = "done" /\ Cmds(i) = <<"git remote get-url origin">>

\* C3, in every step: when the remote query of a task ends on an existing
\* path whose origin is not the expected URL, the task reports the mismatch,
\* ends without another call and no directory changes.
C3_MismatchStep ==
  \A i \in Tasks :
    LET dir == fs[repositories[i]]
    IN  ( /\ pc[i] = "check_remote"
          /\ pc'[i] # "check_remote"
          /\ dir.exists
          /\ dir.remote # ExpectedRemote(repo_org, repositories[i]) )
        => /\ Outcome(i)' = "RemoteMismatch"
           /\ pc'[i] = "done"
           /\ Cmds(i)' = <<"git remote get-url origin">>
           /\ fs' = fs

\* C3: if the target path exists and its origin remote differs from the
\* expected URL, process_repository performs no fetch, pull or clone, leaves
\* the directory unchanged and reports a remote mismatch.
C3_MismatchMutatesNothing == [](C3_MismatchInv) /\ [][C3_MismatchStep]_vars

\* C3 happens: a task has read an origin that is another URL and reported it.
C3_Witness ==
  \E i \in Tasks :
    /\ Outcome(i) = "RemoteMismatch"
    /\ results[i] = <<"ok">>
    /\ fs[repositories[i]].remote = HttpsUrl(ConfigOrg, repositories[i])

\* C4, in every state: a task whose first call is the clone makes no other
\* call, and ends as cloned or as failed to clone.
C4_CloneInv ==
  \A i \in Tasks :
    (Cmds(i) # <<>> /\ Cmds(i)[1] = "git clone") =>
      /\ Cmds(i) = <<"git clone">>
      /\ pc[i] \in {"clone", "done"}
      /\ pc[i] = "done" => Outcome(i) \in {"Cloned", "CloneFailed"}

\* C4, in every step: a task that enters while its path does not exist
\* launches the clone of the expected URL into that path.
C4_CloneStep ==
  \A i \in Tasks :
    (pc[i] = "waiting" /\ pc'[i] # "waiting" /\ ~fs[repositories[i]].exists) =>
      /\ pc'[i] = "clone"
      /\ calls'[i] = <<Call("git clone",
                            <<ExpectedRemote(repo_org, repositories[i]), RepoPath(repositories[i])>>,
                            <<>>)>>

\* C4: if the target path does not exist when process_repository checks it,
\* the task makes exactly one clone attempt and never an update step.
C4_AbsentPathClonesOnce == [](C4_CloneInv) /\ [][C4_CloneStep]_vars

\* C4 happens: a task found no path, cloned, and the path now exists.
C4_Witness ==
  \E i \in Tasks :
    /\ pc[i] = "done"
    /\ Cmds(i) = <<"git clone">>
    /\ results[i] = <<"ok">>
    /\ fs[repositories[i]].exists

\* the task has launched the fetch: check_remote returned True
UpdatePath(i) == Len(calls[i]) >= 2

\* C5 as stated: a task on the update path ends with exactly one fetch, one
\* branch lookup and one pull, however its calls ended.
C5_Original ==
  \A i \in Tasks :
    (pc[i] = "done" /\ UpdatePath(i)) => Cmds(i) = UpdateCmds

\* C5 amended, in every state: the calls of a task on the update path are
\* the remote query, the fetch, then the branch lookup, then the pull, each
\* at most once and never a clone; the task ends after the first call whose
\* launch raised, and after all of them if none did.
C5_UpdateInv ==
  \A i \in Tasks :
    UpdatePath(i) =>
      /\ \E k \in 2..4 : Cmds(i) = SubSeq(UpdateCmds, 1, k)
      /\ pc[i] = "done" =>
           Len(calls[i]) = IF results[i][2] = "raise" THEN 2
                           ELSE IF results[i][3] = "raise" THEN 3 ELSE 4

\* C5 amended, in every step: when the remote query of a task prints the
\* expected URL, the task launches the fetch.
C5_UpdateStep ==
  \A i \in Tasks :
    ( /\ pc[i] = "check_remote"
      /\ pc'[i] # "check_remote"
      /\ fs[repositories[i]].remote = ExpectedRemote(repo_org, repositories[i])
      /\ results'[i] = <<"ok">> )
    => /\ pc'[i] = "fetch"
       /\ Cmds(i)' = SubSeq(UpdateCmds, 1, 2)

\* C5 amended: if the remote query reports the expected URL, the task makes
\* exactly one fetch attempt, the branch lookup once unless the fetch raised,
\* the pull once unless the fetch or the lookup raised, and never a clone.
C5_UpdateChain == [](C5_UpdateInv) /\ [][C5_UpdateStep]_vars

\* C5 amended happens: a task made all three calls although its fetch and
\* its pull exited non-zero.
C5_Witness ==
  \E i \in Tasks :
    /\ pc[i] = "done"
    /\ Cmds(i) = UpdateCmds
    /\ results[i] = <<"ok", "nonzero", "ok", "nonzero">>

\* C6 as stated: a task on the update path one of whose fetch, branch lookup
\* or pull did not end with exit status 0 ends as UpdateFailed.
C6_Original ==
  \A i \in Tasks :
    ( /\ pc[i] = "done"
      /\ UpdatePath(i)
      /\ \E k \in 2..Len(results[i]) : results[i][k] # "ok" )
    => Outcome(i) = "UpdateFailed"

\* C7 as stated: a task whose clone did not end with exit status 0 ends as
\* CloneFailed.
C7_Original ==
  \A i \in Tasks :
    (pc[i] = "done" /\ Cmds(i) = <<"git clone">> /\ results[i] # <<"ok">>)
    => Outcome(i) = "CloneFailed"

\* a call of task i raised at its launch
Raised(i) == \E k \in 1..Len(results[i]) : results[i][k] = "raise"

\* C8: no exception leaves a repository task: a task one of whose calls
\* raised has ended with exactly one outcome line, a failure, no task is ever
\* ended by an exception or cancelled, and run() is never ended by one.
C8_NoErrorEscapes ==
  /\ runPc # "crashed"
  /\ \A i \in Tasks :
       /\ pc[i] \notin {"raised", "cancelled"}
       /\ Raised(i) =>
            /\ pc[i] = "done"
            /\ Len(Outcomes_of(i)) = 1
            /\ Outcome(i) \in FailureOutcomes

\* C8 happens: run() has finished, a call of one task had raised and another
\* task has succeeded.
C8_Witness ==
  /\ runPc = "done"
  /\ \E i, j \in Tasks :
       /\ Raised(i)
       /\ Cmds(i) = <<"git clone">>
       /\ Outcome(j) \in {"Cloned", "Updated"}

\* run() has printed the completion banner
Banner == \E k \in 1..Len(console) : console[k] = "Project initialization complete!"

\* C9: when the probe succeeded, run() stays in gather until every task has
\* ended, the banner is printed only when every task has an outcome, and no
\* task is ever cancelled.
C9_GatherWaitsForAll ==
  /\ Banner => \A i \in Tasks : pc[i] = "done" /\ Outcome(i) # "None"
  /\ (sshResult = "true" /\ \E i \in Tasks : pc[i] # "done") => runPc = "gather"
  /\ \A i \in Tasks : pc[i] # "cancelled"

\* C9 happens: the banner is printed for a list longer than the limit in
\* which one task failed and another succeeded.
C9_Witness ==
  /\ Banner
  /\ Len(repositories) > SemaphoreLimit
  /\ \E i, j \in Tasks :
       Outcome(i) \in FailureOutcomes /\ Outcome(j) \in {"Cloned", "Updated"}

\* C10: once the process has ended, its exit code is 1 exactly when
\* verify_git_ssh() returned false, and 0 when it returned true, whatever
\* the outcomes of the repositories; a failed probe ends the process at once.
C10_ExitCode ==
  /\ exitCode # {} =>
       /\ (exitCode = {ExitFailure}) <=> (sshResult = "false")
       /\ (sshResult = "true") => (exitCode = {ExitSuccess})
  /\ sshResult = "false" => exitCode # {}
  /\ exitCode = {} <=> runPc \in {"start", "verify", "gather"}

\* C10 happens: the process ended with 0 although no repository succeeded:
\* one had a remote mismatch and one failed to clone.
C10_Witness ==
  /\ exitCode = {ExitSuccess}
  /\ \A i \in Tasks : Outcome(i) \in FailureOutcomes
  /\ \E i, j \in Tasks : Outcome(i) = "RemoteMismatch" /\ Outcome(j) = "CloneFailed"

\* every task has acquired the limiter, reached its outcome and given the
\* permit back, and run() has returned
AllSettled ==
  /\ runPc = "done"
  /\ semaphore = SemaphoreLimit
  /\ \A i \in Tasks : pc[i] = "done" /\ Len(calls[i]) >= 1 /\ Outcome(i) \in SyncOutcomes

\* C11: when every subprocess call eventually returns, the process eventually
\* ends, and once the tasks are launched every one of them eventually
\* acquires the limiter, reaches a terminal outcome and releases the limiter,
\* and run() finishes, also for a list longer than the limit.
C11_RunTerminates ==
  <>(\/ runPc = "exited" /\ \A i \in Tasks : pc[i] = "unstarted"
     \/ AllSettled /\ exitCode # {})

\* a run of more tasks than permits has finished with every task settled
C11_Witness == AllSettled /\ Len(repositories) > SemaphoreLimit

\* the calls of program cmd the tasks of the run have launched so far
Launched(cmd) ==
  UNION {{<<i, k>> : k \in {k \in 1..Len(calls[i]) : calls[i][k].cmd = cmd}} : i \in Tasks}

\* the list names distinct repositories, none of which had a directory
\* before the run
FreshList ==
  /\ \A i, j \in Tasks : repositories[i] = repositories[j] => i = j
  /\ \A i \in Tasks : ~PathExists(fs0, repositories[i])

\* C12: for a list of n distinct names none of which exists locally, and the
\* SSH verification succeeding, a run never pulls (nor queries or fetches),
\* never makes more than one clone attempt per name, and when run() has
\* returned it has made exactly n clone attempts and the exit code is 0,
\* whatever the order in which the tasks ran.
C12_FreshRunClonesAll ==
  FreshList =>
    /\ Launched("git pull") = {}
    /\ Launched("git fetch") = {}
    /\ Launched("git remote get-url origin") = {}
    /\ \A i \in Tasks : Len(calls[i]) <= 1
    /\ runPc = "done" =>
         /\ Cardinality(Launched("git clone")) = Len(repositories)
         /\ exitCode = {ExitSuccess}

\* a run over three new names has returned, one clone having failed
C12_Witness ==
  /\ FreshList
  /\ Len(repositories) = 3
  /\ runPc = "done"
  /\ sshResult = "true"
  /\ Cardinality(Launched("git clone")) = 3
  /\ \E i \in Tasks : Outcome(i) = "CloneFailed"

\* C13: a task that has ended has printed exactly one outcome line, and it
\* is one of Cloned, Updated, RemoteMismatch, CloneFailed, UpdateFailed; a
\* task that has not ended has printed none; so a finished run has reported
\* one outcome per descriptor.
C13_OneOutcomePerTask ==
  \A i \in Tasks :
    IF pc[i] = "done"
    THEN Len(Outcomes_of(i)) = 1 /\ Outcome(i) \in SyncOutcomes
    ELSE Outcomes_of(i) = <<>>

\* a finished run of more tasks than permits that reported four different
\* outcomes, a repository listed twice having its own line each time
C13_Witness ==
  /\ runPc = "done"
  /\ Len(repositories) > SemaphoreLimit
  /\ Cardinality({Outcome(i) : i \in Tasks}) = 4
  /\ \A i \in Tasks : Len(Outcomes_of(i)) = 1

\* git@github.com:<org>/<name>.git for task i
SshUrl(i) == <<"git@github.com:", repo_org, "/", repositories[i], ".git">>

\* every clone is launched with git@github.com:<org>/<name>.git, which is the
\* expected remote of the same repository; two expected remotes are equal
\* only for the same organization and name
C14_CloneInv ==
  /\ \A i \in Tasks : \A k \in 1..Len(calls[i]) :
       calls[i][k].cmd = "git clone" =>
         /\ calls[i][k].args[1] = SshUrl(i)
         /\ calls[i][k].args[1] = ExpectedRemote(repo_org, repositories[i])
  /\ \A o1, o2 \in Orgs : \A n1, n2 \in AllNames :
       ExpectedRemote(o1, n1) = ExpectedRemote(o2, n2) <=> (o1 = o2 /\ n1 = n2)

\* the remote check of a query that ended well lets the task go on exactly
\* when the origin of the directory is git@github.com:<org>/<name>.git
C14_CheckStep ==
  \A i \in Tasks :
    (pc[i] = "check_remote" /\ pc'[i] # "check_remote" /\ results'[i] = <<"ok">>) =>
      (pc'[i] = "fetch" <=> fs[repositories[i]].remote = SshUrl(i))

\* C14: the expected remote URL of a repository is exactly
\* git@github.com:<org>/<name>.git, fixed by organization and name, and the
\* URL handed to git clone is the URL the remote check compares against.
C14_OneUrl == [](C14_CloneInv) /\ [][C14_CheckStep]_vars

\* under another organization, a directory this run has cloned passes the
\* remote check of a second task for the same name
C14_Witness ==
  /\ repo_org = "OtherOrg"
  /\ \E i, j \in Tasks :
       /\ i # j /\ repositories[i] = repositories[j]
       /\ ~PathExists(fs0, repositories[i])
       /\ Outcome(i) = "Cloned"
       /\ Len(calls[j]) >= 2 /\ calls[j][1].cmd = "git remote get-url origin"

\* C15: the SSH probe is launched once per run, at the start of run() and
\* never again, and no task exists, holds a permit, has launched a call or
\* printed a line unless that probe has returned and verify_git_ssh() said
\* true.
C15_ProbeOnceThenTasks ==
  /\ sshCalls <= 1
  /\ runPc # "start" => sshCalls = 1
  /\ (\/ semaphore < SemaphoreLimit
      \/ \E i \in Tasks : pc[i] # "unstarted" \/ calls[i] # <<>> \/ log[i] # <<>>)
       => (sshCalls = 1 /\ sshProbe = {} /\ sshResult = "true")

\* after the one probe said true a task is inside its chain
C15_Witness ==
  /\ sshCalls = 1
  /\ sshResult = "true"
  /\ \E i \in Tasks : pc[i] \in InChain /\ Len(calls[i]) = 1

\* what a branch lookup that ended with rc in the directory of task i printed,
\* trimmed: the checked-out branch, or nothing when git failed
LookupAnswer(i, rc) == IF rc = "ok" THEN <<fs[repositories[i]].branch>> ELSE <<>>

\* C16: in an update the fetch, the branch lookup and the pull are launched
\* in this order, each only after the call before it has ended, all in the
\* directory of the repository, and the pull is `git pull origin <branch>`
\* with the branch name the lookup of this same update printed.
C16_UpdateOrder ==
  \A i \in Tasks : UpdatePath(i) =>
    /\ Len(calls[i]) <= Len(UpdateCmds)
    /\ \A k \in 1..Len(calls[i]) :
         calls[i][k].cmd = UpdateCmds[k] /\ calls[i][k].cwd = RepoPath(repositories[i])
    /\ Len(results[i]) \in {Len(calls[i]) - 1, Len(calls[i])}
    /\ (Len(results[i]) = Len(calls[i])) <=> (pc[i] = "done")
    /\ \A k \in 1..Len(results[i]) : k < Len(calls[i]) => results[i][k] # "raise"
    /\ Len(calls[i]) = 4 =>
         /\ calls[i][4].args = <<<<"origin">>, LookupAnswer(i, results[i][3])>>
         /\ current_branch[i] = calls[i][4].args[2]

\* the pull of an update has been launched for the branch dev, which the
\* lookup printed
C16_Witness ==
  \E i \in Tasks :
    /\ Len(calls[i]) = 4
    /\ calls[i][4].args = <<<<"origin">>, <<"dev">>>>
    /\ results[i][3] = "ok"

\* where task i has printed line
Pos(i, line) == {k \in 1..Len(log[i]) : log[i][k] = line}

\* the lines that announce what a task does next
ActionLines == {"exists, verifying...", "Updating...", "Cloning..."}

\* C17, in every state: a task that holds no permit yet has printed nothing;
\* the lines of a task begin with its one Processing line, then the
\* verifying or the Cloning line; Updating comes after verifying; every
\* action line is printed once and before the outcome line, of which there is
\* at most one.
C17_LogInv ==
  \A i \in Tasks :
    /\ pc[i] \in {"unstarted", "waiting"} => log[i] = <<>>
    /\ log[i] # <<>> =>
         /\ Pos(i, "Processing repository") = {1}
         /\ Len(log[i]) >= 2 /\ log[i][2] \in {"exists, verifying...", "Cloning..."}
         /\ \A a \in ActionLines : Cardinality(Pos(i, a)) <= 1
         /\ \A k \in Pos(i, "Updating...") : \A m \in Pos(i, "exists, verifying...") : m < k
         /\ \A k, m \in 1..Len(log[i]) :
              (log[i][k] \in ActionLines /\ OutcomeOfLine(log[i][m]) # "None") => k < m
         /\ Len(Outcomes_of(i)) <= 1

\* C17, in every step: lines are only added at the end of what a task has
\* printed, and only in a step in which the task is inside `async with`:
\* right after taking its permit, between two calls of its chain, or right
\* before giving the permit back.
C17_LogStep ==
  \A i \in Tasks : log'[i] # log[i] =>
    /\ Len(log'[i]) > Len(log[i])
    /\ SubSeq(log'[i], 1, Len(log[i])) = log[i]
    /\ \/ pc[i] = "waiting" /\ pc'[i] \in InChain /\ semaphore' = semaphore - 1
       \/ pc[i] \in InChain /\ pc'[i] \in InChain /\ semaphore' = semaphore
       \/ pc[i] \in InChain /\ pc'[i] = "done" /\ semaphore' = semaphore + 1

\* C17: the lines of a task appear in program order, Processing, then the
\* action line, then the single outcome line, whatever the other tasks do,
\* and all of them are printed while the task holds the limiter.
C17_LogInOrder == [](C17_LogInv) /\ [][C17_LogStep]_vars

\* a task that had to wait for a permit has printed Processing, Cloning and
\* its outcome line, in this order, while an earlier task is still printing
C17_Witness ==
  \E i \in Tasks :
    /\ i > SemaphoreLimit
    /\ pc[i] = "done"
    /\ \E j \in Tasks : j < i /\ pc[j] \in InChain /\ log[j] # <<>>
    /\ SubSeq(log[i], 1, 2) = <<"Processing repository", "Cloning...">>
    /\ OutcomeOfLine(log[i][Len(log[i])]) # "None"

\* two characters are the same letter, whatever their case
SameLetter(c, d) ==
  \/ c = d
  \/ \E k \in 1..Len(Uppers) : {c, d} = {Uppers[k], Lowers[k]}

\* text holds the words "successfully authenticated" in some mix of cases
HasMarker(text) ==
  \E s \in 0..(Len(text) - Len(Marker)) :
    \A k \in 1..Len(Marker) : SameLetter(text[s + k], Marker[k])

\* the step in which verify_git_ssh() returns: it says true exactly when the
\* probe was launched and its stderr holds the marker in some mix of cases,
\* whatever the exit status; a probe that could not be launched gives false,
\* the error line and the exit with code 1
C18_VerifyStep ==
  \A probe \in sshProbe :
    (runPc = "verify" /\ runPc' # "verify") =>
      /\ sshResult' \in {"true", "false"}
      /\ sshResult' = "true" <=> (~probe.raised /\ HasMarker(probe.stderr))
      /\ sshResult' = "true" <=> runPc' = "gather"
      /\ probe.raised =>
           /\ sshResult' = "false"
           /\ runPc' = "exited"
           /\ exitCode' = {ExitFailure}
           /\ console' = console \o <<"Error verifying Git SSH access",
                                       "Failed to verify Git SSH access to GitHub",
                                       "Please check your SSH configuration">>

\* C18: verify_git_ssh returns true exactly when the stderr of the probe
\* contains the success marker, in any case of the letters, independent of
\* the exit status of the probe; a launch exception of the probe yields
\* false and so the fatal abort.
C18_MarkerDecides == [][C18_VerifyStep]_vars

\* the probe could not be launched: verify_git_ssh printed the error and
\* said false, and the run has ended with exit code 1
C18_Witness ==
  /\ sshResult = "false"
  /\ runPc = "exited"
  /\ exitCode = {ExitFailure}
  /\ \E k \in 1..Len(console) : console[k] = "Error verifying Git SSH access"

UnreadableOrigin(i) ==
  /\ calls[i] # <<>>
  /\ calls[i][1].cmd = "git remote get-url origin"
  /\ results[i] # <<>>
  /\ results[i][1] # "ok"

\* C20, in every state: a task whose query for the origin exited non-zero or
\* could not be launched has ended as a remote mismatch with that query as
\* its only call
C20_UnreadableInv ==
  \A i \in Tasks : UnreadableOrigin(i) =>
    /\ pc[i] = "done"
    /\ Outcomes_of(i) = <<"RemoteMismatch">>
    /\ Len(calls[i]) = 1
    /\ Len(results[i]) = 1

\* C20, in every step: when the query returns for a directory without an
\* origin (not a working tree), or returns without having ended well, the
\* task prints the mismatch lines and ends, launches nothing and leaves all
\* directories as they are
C20_UnreadableStep ==
  \A i \in Tasks :
    (/\ pc[i] = "check_remote"
     /\ pc'[i] # "check_remote"
     /\ fs[repositories[i]].remote = <<>> \/ results'[i][1] # "ok") =>
      /\ pc'[i] = "done"
      /\ log'[i] = log[i] \o MismatchLines
      /\ calls' = calls
      /\ fs' = fs

\* C20: an existing path whose origin cannot be read, because it is not a
\* working tree, has no origin, or the query fails or cannot be launched, is
\* treated as a remote mismatch: no clone, fetch or pull is attempted and the
\* directory is left untouched.
C20_UnreadableIsMismatch == [](C20_UnreadableInv) /\ [][C20_UnreadableStep]_vars

\* one task ended as a mismatch because the query could not be launched in
\* a directory whose origin is the expected one, another because its
\* directory is no working tree; both directories are as before the run
C20_Witness ==
  \E i, j \in Tasks :
    /\ Outcome(i) = "RemoteMismatch" /\ results[i] = <<"raise">>
    /\ fs[repositories[i]].remote = SshUrl(i)
    /\ Outcome(j) = "RemoteMismatch" /\ results[j] = <<"nonzero">>
    /\ fs[repositories[j]].exists /\ fs[repositories[j]].remote = <<>>
    /\ fs = fs0

\* this is the second run, and in the first every task made one clone, which
\* ended well, and run() returned
FirstRunClonedAll ==
  /\ history # <<>>
  /\ history[1].runPc = "done"
  /\ \A i \in Tasks :
       /\ Len(history[1].calls[i]) = 1
       /\ history[1].calls[i][1].cmd = "git clone"
       /\ history[1].results[i] = <<"ok">>

\* C21 as stated: after a first run that cloned every repository of the
\* list, the second run makes no clone attempt, reports no remote mismatch
\* and, once it has returned, has taken the update path for every repository.
C21_Original ==
  FirstRunClonedAll =>
    /\ Launched("git clone") = {}
    /\ \A i \in Tasks : Outcome(i) # "RemoteMismatch"
    /\ runPc = "done" => \A i \in Tasks : Len(calls[i]) >= 2 /\ calls[i][2].cmd = "git fetch"

\* What the second run does do after a first run that cloned every
\* repository of the list: it makes no clone attempt and begins every task
\* with the query for the origin; a task whose query ended well goes on to
\* the fetch and reports no mismatch; a mismatch is reported only by a task
\* whose query exited non-zero or could not be launched; and every directory
\* keeps the origin the clone gave it.
RerunUpdatesWhenQueried ==
  FirstRunClonedAll =>
    /\ Launched("git clone") = {}
    /\ \A i \in Tasks :
         /\ fs[repositories[i]].exists /\ fs[repositories[i]].remote = SshUrl(i)
         /\ calls[i] # <<>> => calls[i][1].cmd = "git remote get-url origin"
         /\ (results[i] # <<>> /\ results[i][1] = "ok") =>
              /\ Len(calls[i]) >= 2 /\ calls[i][2].cmd = "git fetch"
              /\ Outcome(i) # "RemoteMismatch"
         /\ Outcome(i) = "RemoteMismatch" => results[i] \in {<<"nonzero">>, <<"raise">>}

\* the names of the list are pairwise distinct
DistinctNames == \A i, j \in Tasks : repositories[i] = repositories[j] => i = j

\* what one task of a run, alone in the workspace, leaves of an absent path:
\* the results of its calls, its outcome and the directory
SoloClone(d0, url) ==
  {[results |-> <<c.rc>>,
    outcome |-> IF c.rc = "raise" THEN "CloneFailed" ELSE "Cloned",
    dir |-> c.dir] : c \in CloneRuns(d0, url)}

\* the same for a directory whose origin is not read or is another URL
SoloMismatch(d0, url) ==
  {[results |-> <<q.rc>>, outcome |-> "RemoteMismatch", dir |-> d0] :
     q \in {q \in RemoteRuns(d0) : q.rc # "ok" \/ d0.remote # url}}

\* the same from the pull on, after a fetch f and a branch lookup b
SoloPull(f, b) ==
  {[results |-> <<"ok", f.rc, b.rc, p.rc>>,
    outcome |-> IF p.rc = "raise" THEN "UpdateFailed" ELSE "Updated",
    dir |-> p.dir] :
     p \in PullRuns(f.dir, IF b.rc = "ok" THEN <<f.dir.branch>> ELSE <<>>)}

\* the same for a directory whose origin is read and is url
SoloUpdate(d0, url) ==
  IF d0.remote # url
  THEN {}
  ELSE UNION {IF f.rc = "raise"
              THEN {[results |-> <<"ok", f.rc>>, outcome |-> "UpdateFailed", dir |-> f.dir]}
              ELSE UNION {IF b.rc = "raise"
                          THEN {[results |-> <<"ok", f.rc, b.rc>>,
                                 outcome |-> "UpdateFailed", dir |-> f.dir]}
                          ELSE SoloPull(f, b) : b \in BranchRuns(f.dir)}
              : f \in FetchRuns(d0)}

Solo(d0, url) ==
  IF d0.exists THEN SoloMismatch(d0, url) \cup SoloUpdate(d0, url) ELSE SoloClone(d0, url)

\* C22, in every state, for pairwise distinct names: the path of a task
\* that has not begun, and every path no task names, is as before the run;
\* and what a finished task leaves behind (the results of its calls, its
\* outcome, its directory) is something the task alone in the workspace
\* leaves behind, whatever its siblings did and in whatever order.
C22_SoloInv ==
  DistinctNames =>
    /\ \A n \in AllNames : (\A i \in Tasks : repositories[i] # n) => fs[n] = fs0[n]
    /\ \A i \in Tasks :
         /\ pc[i] \in {"unstarted", "waiting"} => fs[repositories[i]] = fs0[repositories[i]]
         /\ pc[i] = "done" =>
              [results |-> results[i], outcome |-> Outcome(i), dir |-> fs[repositories[i]]]
                \in Solo(fs0[repositories[i]], SshUrl(i))

\* C22, in every step: a directory changes only in a step of a task that
\* names it, and such a step changes no other directory and no other task
C22_LocalStep ==
  \A n \in AllNames : fs'[n] # fs[n] =>
    \E i \in Tasks :
      /\ repositories[i] = n
      /\ pc[i] \in InChain /\ pc'[i] # pc[i]
      /\ \A m \in AllNames \ {n} : fs'[m] = fs[m]
      /\ \A j \in Tasks \ {i} :
           /\ pc'[j] = pc[j] /\ calls'[j] = calls[j]
           /\ results'[j] = results[j] /\ log'[j] = log[j]

\* C22: for descriptors with pairwise distinct names the tasks are
\* independent: a task reads and changes only the path of its own
\* repository, so the outcome and the final directory of a repository are
\* those of the task run alone, under every interleaving and whatever
\* the outcomes of the sibling tasks.
C22_TasksIndependent == [](C22_SoloInv) /\ [][C22_LocalStep]_vars

\* two tasks of distinct names that ran at the same time have ended, one
\* with an update that left new objects, the other as a remote mismatch
C22_Witness ==
  /\ DistinctNames
  /\ \E i, j \in Tasks :
       /\ Outcome(i) = "Updated" /\ fs[repositories[i]] # fs0[repositories[i]]
       /\ Outcome(j) = "RemoteMismatch"
       /\ Len(results[i]) = 4

====
